---- MODULE Spec2Model ----
(***************************************************************************)
(* State-machine model of the audio hub's persistence and session layer:   *)
(*   - libs/indexedDBHelpers.ts  (initDB, addItem, deleteItem, loadItems,  *)
(*     clearStore)                                                         *)
(*   - hooks/useAudioRecorder.ts (recording session manager)               *)
(*   - hooks/useTextToSpeech.ts  (speech synthesis session manager)        *)
(* Every await of the source is a step boundary: the code before the await *)
(* is one action, the continuation after it another; the outcome of the    *)
(* awaited platform call (device, store, network) is chosen by the         *)
(* environment when the continuation runs.                                 *)
(***************************************************************************)
EXTENDS Integers, Sequences, FiniteSets

(* ------------------------------ bounds --------------------------------- *)
\* getUserMedia requests one manager instance may issue
MaxStreams == 2
\* chunks the shared chunk buffer may hold
MaxChunks == 1
\* object URLs URL.createObjectURL may hand out
MaxUrls == 2
\* records an earlier visit may have left in a store, one per millisecond
\* 0 .. MaxPersisted - 1; this visit starts at millisecond MaxPersisted
MaxPersisted == 2
\* last value of the millisecond clock (Date.now)
MaxTime == 3
\* delete and clear calls that may be in flight at once
MaxPending == 1

\* files in one batch handed to uploadRecordings
MaxFiles == 2
\* uploadRecordings calls that may be in flight at once
MaxUploads == 1
\* object URLs handed out by the time an upload asks for one
MaxUploadUrls == 3

\* generateSpeech calls that may be in flight at once: when the caller waits
\* for each call to end before the next, and when calls may overlap
MaxSpeech == 1
MaxOverlap == 2
\* saveSettings calls that may be in flight at once
MaxSaves == 2
\* calls of the store helpers in flight at once, and connections open at once
MaxCalls == 2
MaxConnections == 3
\* fetchNewsData calls in flight at once, and news requests made in all
MaxNewsCalls == 3
MaxRequests == 3

(* --------------------------- value universe ---------------------------- *)
NoStream == 0
NoRecorder == 0
\* 0 is not a handle of this page: the empty value, or a blob URL string
\* persisted by an earlier page load (dead in this one)
NoUrl == 0
\* pendingRequest = null
NoRequest == 0

Streams == 1..MaxStreams

Digit == <<"0", "1", "2", "3", "4", "5", "6", "7", "8", "9">>

\* Number.prototype.toString for a non-negative integer
RECURSIVE toString(_)
toString(n) ==
    IF n < 10 THEN Digit[n + 1] ELSE toString(n \div 10) \o Digit[(n % 10) + 1]

StoreOutcomes == {"ok", "openError", "requestError"}

Error(msg) == [type |-> "error", msg |-> msg]
Success(msg) == [type |-> "success", msg |-> msg]

VARIABLES
    \* ---- platform ----
    db,                 \* the object stores: store name -> set of records
    objectUrls,         \* blob URLs created and not revoked
    urlCount,           \* number of blob URLs created so far
    now,                \* the value the next Date.now() returns
    toasts,             \* notifications raised by the last step
    \* ---- useAudioRecorder ----
    mounted,
    initPc,             \* initializeApp: "loading" | "done"
    isRecording,
    recordings,
    streamRef,
    mediaRecorderRef,
    audioChunksRef,
    tracks,             \* stream -> "none" | "live" | "ended"
    recPc,              \* recorder -> position of the recorder / its onstop handler
    onstop,             \* recorder -> has stopRecording attached its onstop handler
    audioBlob,          \* recorder -> blob built by onstop (while onstop runs)
    newItem,            \* recorder -> item handed to addItem (while onstop runs)
    pendingStarts,      \* startRecording calls waiting for getUserMedia
    pendingDeletes,     \* deleteRecording calls waiting for deleteItem
    pendingClears,      \* clearAllRecordings calls waiting for clearStore
    pendingUploads,     \* uploadRecordings calls in flight, oldest first
    \* ---- useTextToSpeech ----
    ttsMounted,
    ttsInitPc,          \* initializeApp: "history" | "settings" | "done"
    isInitializing,
    state,              \* language, text, isOptimizeWithAI
    audioUrl,           \* the current-audio pointer
    history,
    isLoading,
    pendingSpeech,      \* generateSpeech calls in flight, oldest first
    pendingSaves,       \* saveSettings calls in flight, by the time their
                        \* outstanding store operation was issued, oldest first
    pendingHistoryDeletes,
    pendingHistoryClears,
    \* ---- libs/indexedDBHelpers.ts, a helper call step by step ----
    storeCalls,         \* calls of addItem / deleteItem / loadItems / clearStore
                        \* in flight, oldest first
    connections,        \* database connections opened and not closed
    \* ---- api/newsApi.ts ----
    pendingRequest,     \* the module's pendingRequest: NoRequest or a request
    requestCount,       \* fetch(newsEndPoint) calls made so far
    network,            \* news requests sent and not settled
    newsCalls           \* fetchNewsData calls whose caller has not resumed

platformVars == <<db, objectUrls, urlCount, now, toasts>>
sessionVars == <<isRecording, streamRef, mediaRecorderRef, audioChunksRef, tracks,
                 recPc, onstop, audioBlob, newItem, pendingStarts>>
recorderVars == <<mounted, initPc, recordings, sessionVars, pendingDeletes,
                  pendingClears, pendingUploads>>
ttsVars == <<ttsMounted, ttsInitPc, isInitializing, state, audioUrl, history,
             isLoading, pendingSpeech, pendingSaves, pendingHistoryDeletes,
             pendingHistoryClears>>
storeVars == <<storeCalls, connections>>
newsVars == <<pendingRequest, requestCount, network, newsCalls>>
vars == <<platformVars, recorderVars, ttsVars, storeVars, newsVars>>

(* ---------------------- libs/indexedDBHelpers.ts ----------------------- *)

\* initDB: request.onerror raises a toast and rejects
initDBToasts(outcome) ==
    IF outcome = "openError" THEN <<Error("Unable to access database")>> ELSE <<>>

\* IDBObjectStore.add, as the earlier revision's addRecording used it: the
\* request fails when the store already holds the key
storeAdd(records, item) ==
    IF \E r \in records : r.id = item.id
        THEN [ok |-> FALSE, records |-> records]
        ELSE [ok |-> TRUE, records |-> records \cup {item}]

\* IDBObjectStore.put with keyPath "id": the request succeeds and the record
\* takes the place of the one with the same key
storePut(records, item) ==
    [ok |-> TRUE, records |-> {r \in records : r.id # item.id} \cup {item}]

\* IDBObjectStore.delete: removing an absent key succeeds
storeDelete(records, id) == {r \in records : r.id # id}

\* addItem: resolves after store.put; rejects (no toast of its own) on request error
addItemToasts(outcome) == initDBToasts(outcome)

\* outcome is what the platform does to the open and to the request for
\* reasons of its own; the result is how addItem settles and what the store holds
addItem(records, item, outcome) ==
    LET request == storePut(records, item)
    IN IF outcome = "ok" /\ request.ok
          THEN [outcome |-> "ok", records |-> request.records]
          ELSE [outcome |-> IF outcome = "ok" THEN "requestError" ELSE outcome,
                records |-> records]

deleteItemToasts(storeName, outcome) ==
    initDBToasts(outcome) \o
    (IF outcome = "requestError"
        THEN <<Error("Failed to delete item from " \o storeName)>> ELSE <<>>)

deleteItem(records, id, outcome) ==
    IF outcome = "ok" THEN storeDelete(records, id) ELSE records

clearStoreToasts(storeName, showSuccessToast, outcome) ==
    initDBToasts(outcome) \o
    (CASE outcome = "requestError" -> <<Error("Failed to clear store " \o storeName)>>
       [] outcome = "ok" /\ showSuccessToast ->
                <<Success("All items in " \o storeName \o " cleared")>>
       [] OTHER -> <<>>)

clearStore(records, outcome) == IF outcome = "ok" THEN {} ELSE records

loadItemsToasts(storeName, outcome) ==
    initDBToasts(outcome) \o
    (IF outcome = "requestError"
        THEN <<Error("Failed to load items from " \o storeName)>> ELSE <<>>)

\* the position of a record in its store.  The key of an item is
\* Date.now().toString(), all of one length, so the order of the keys is the
\* order of the numbers they spell; the key of the settings record is its number.
KeyOrder(r) ==
    IF "timestamp" \in DOMAIN r
        THEN CHOOSE n \in 0..MaxTime : toString(n) = r.id
        ELSE r.id

\* IDBObjectStore.getAll returns the records in key order
RECURSIVE getAll(_)
getAll(records) ==
    IF records = {} THEN <<>>
    ELSE LET first == CHOOSE r \in records : \A q \in records : KeyOrder(r) <= KeyOrder(q)
         IN <<first>> \o getAll(records \ {first})

\* store.indexNames: initDB creates every store with a keyPath and no index
IndexNames == {}

\* IDBIndex.getAll: the records that have the index's key, in the order of
\* that key
RECURSIVE indexGetAll(_, _)
indexGetAll(records, indexName) ==
    LET indexed == {r \in records : indexName \in DOMAIN r}
    IN IF indexed = {} THEN <<>>
       ELSE LET first == CHOOSE r \in indexed :
                            \A q \in indexed : r[indexName] <= q[indexName]
            IN <<first>> \o indexGetAll(indexed \ {first}, indexName)

\* loadItems as the earlier revision had it: store.index(indexName) throws
\* NotFoundError inside the promise when the store has no such index
loadItemsByIndex(records, indexNames, indexName, outcome) ==
    IF outcome # "ok" THEN [outcome |-> outcome, items |-> <<>>]
    ELSE IF indexName \in indexNames
         THEN [outcome |-> "ok", items |-> indexGetAll(records, indexName)]
         ELSE [outcome |-> "notFound", items |-> <<>>]

\* loadItems: reads through the index when one is asked for ("" = none) and
\* the store has it, and falls back to the store itself otherwise
loadItems(records, indexNames, indexName, outcome) ==
    IF outcome # "ok" THEN [outcome |-> outcome, items |-> <<>>]
    ELSE IF indexName # "" /\ indexName \in indexNames
         THEN [outcome |-> "ok", items |-> indexGetAll(records, indexName)]
         ELSE [outcome |-> "ok", items |-> getAll(records)]

(* ------------------------------ helpers -------------------------------- *)

\* Array.prototype.sort((a, b) => b.timestamp - a.timestamp): stable insertion
RECURSIVE InsertDesc(_, _)
InsertDesc(item, sorted) ==
    IF sorted = <<>> THEN <<item>>
    ELSE IF Head(sorted).timestamp >= item.timestamp
         THEN <<Head(sorted)>> \o InsertDesc(item, Tail(sorted))
         ELSE <<item>> \o sorted

RECURSIVE SortDesc(_)
SortDesc(items) ==
    IF items = <<>> THEN <<>>
    ELSE InsertDesc(items[Len(items)], SortDesc(SubSeq(items, 1, Len(items) - 1)))

\* the list installed as getAll returned it, without the manager's sort
Unsorted(items) == items

\* what initializeApp does to the mapped items before it installs them
SortItems(items) == SortDesc(items)

\* items.map(item => ({...item, audioUrl: URL.createObjectURL(...)})): the k-th
\* item gets the k-th new URL
WithNewUrls(items, base) ==
    [k \in 1..Len(items) |-> [items[k] EXCEPT !.audioUrl = base + k]]

\* Array.prototype.filter(item => item.id !== id)
RECURSIVE WithoutId(_, _)
WithoutId(items, id) ==
    IF items = <<>> THEN <<>>
    ELSE (IF Head(items).id = id THEN <<>> ELSE <<Head(items)>>)
            \o WithoutId(Tail(items), id)

\* ids a delete call is made with: those of the listed items (the delete button
\* of a row) and those of stored records (a row of a list that is out of date)
KnownIds(items, records) ==
    {items[k].id : k \in 1..Len(items)} \cup {r.id : r \in records}

\* the audioUrl values of a list, for forEach(item => item.audioUrl && revoke)
UrlsOf(items) == {items[k].audioUrl : k \in 1..Len(items)} \ {NoUrl}

\* Array.prototype.find(item => item.id === id): first match, or none
Find(items, id) ==
    LET hits == {k \in 1..Len(items) : items[k].id = id}
    IN IF hits = {} THEN [found |-> FALSE, audioUrl |-> NoUrl]
       ELSE [found |-> TRUE,
             audioUrl |-> items[CHOOSE k \in hits : \A j \in hits : k <= j].audioUrl]

\* String.prototype.trim on a string given as its characters
RECURSIVE TrimStart(_)
TrimStart(text) ==
    IF text # <<>> /\ Head(text) = " " THEN TrimStart(Tail(text)) ELSE text

RECURSIVE TrimEnd(_)
TrimEnd(text) ==
    IF text # <<>> /\ text[Len(text)] = " "
        THEN TrimEnd(SubSeq(text, 1, Len(text) - 1)) ELSE text

\* the check of the earlier revision, `!text`: the text is taken as it is
NoTrim(text) == text

trim(text) == TrimEnd(TrimStart(text))

\* remove the k-th element of a sequence
RemoveAt(seq, k) == SubSeq(seq, 1, k - 1) \o SubSeq(seq, k + 1, Len(seq))

\* generateSpeech reads the clock twice: Date.now().toString() for the id,
\* Date.now() for the timestamp
TTSHistoryItem(idTime, timestamp, url, audioBinary, text) ==
    [id |-> toString(idTime), timestamp |-> timestamp, audioUrl |-> url,
     audioBinary |-> audioBinary, text |-> text]

\* the settings record as a partial patch: isOptimizeWithAI is not written
TTSSettingsPartial(st) ==
    [id |-> 1, language |-> st.language, text |-> st.text, isOptimizeWithAI |-> FALSE]

\* the record saveSettings writes
TTSSettings(st) ==
    [id |-> 1, language |-> st.language, text |-> st.text,
     isOptimizeWithAI |-> st.isOptimizeWithAI]

\* useState's initial value of state
DefaultState == [language |-> "en", text |-> <<>>, isOptimizeWithAI |-> FALSE]

\* a record left in ttsHistory, and one left in ttsSettings, by an earlier page load
PersistedSpeech == TTSHistoryItem(0, 0, NoUrl, <<"mp3">>, <<"h", "i">>)
PersistedSpeeches ==
    {TTSHistoryItem(t, t, NoUrl, <<"mp3">>, <<"h", "i">>) : t \in 0..(MaxPersisted - 1)}
PersistedSettings ==
    TTSSettings([language |-> "vi", text |-> <<"h", "i">>, isOptimizeWithAI |-> FALSE])

RecordingItem(timestamp, url, audioBinary) ==
    [id |-> toString(timestamp), timestamp |-> timestamp, audioUrl |-> url,
     audioBinary |-> audioBinary, text |-> "Rec " \o toString(timestamp)]

NoItem == RecordingItem(0, NoUrl, <<>>)

\* a record left in the store by an earlier page load; its audioUrl is dead
PersistedItem == RecordingItem(0, NoUrl, <<0>>)
PersistedItems == {RecordingItem(t, NoUrl, <<0>>) : t \in 0..(MaxPersisted - 1)}

(* --------------------------------- Init -------------------------------- *)

\* each store is empty on a first visit and holds the records of earlier
\* visits otherwise
Init ==
    /\ db \in [recordings : SUBSET PersistedItems,
               ttsHistory : SUBSET PersistedSpeeches,
               ttsSettings : {{}, {PersistedSettings}}]
    /\ objectUrls = {}
    /\ urlCount = 0
    /\ now = MaxPersisted
    /\ toasts = <<>>
    /\ mounted = TRUE
    /\ initPc = "loading"
    /\ isRecording = FALSE
    /\ recordings = <<>>
    /\ streamRef = NoStream
    /\ mediaRecorderRef = NoRecorder
    /\ audioChunksRef = <<>>
    /\ tracks = [s \in Streams |-> "none"]
    /\ recPc = [r \in Streams |-> "none"]
    /\ onstop = [r \in Streams |-> FALSE]
    /\ audioBlob = [r \in Streams |-> <<>>]
    /\ newItem = [r \in Streams |-> NoItem]
    /\ pendingStarts = 0
    /\ pendingDeletes = {}
    /\ pendingClears = {}
    /\ pendingUploads = <<>>
    /\ ttsMounted = TRUE
    /\ ttsInitPc = "history"
    /\ isInitializing = TRUE
    /\ state = DefaultState
    /\ audioUrl = NoUrl
    /\ history = <<>>
    /\ isLoading = FALSE
    /\ pendingSpeech = <<>>
    /\ pendingSaves = <<>>
    /\ pendingHistoryDeletes = {}
    /\ pendingHistoryClears = {}
    /\ storeCalls = <<>>
    /\ connections = 0
    /\ pendingRequest = NoRequest
    /\ requestCount = 0
    /\ network = {}
    /\ newsCalls = <<>>

(* ------------------------- useAudioRecorder ---------------------------- *)

\* the clock after a Date.now() read: the next read may fall in the same
\* millisecond or a later one
Clock(tick) == IF tick /\ now < MaxTime THEN now + 1 ELSE now

\* the same, for a read made at time
ClockAfter(time, tick) == IF tick /\ time < MaxTime THEN time + 1 ELSE time

\* MediaStreamTrack.stop() on every track of a stream
StopTracks(trk, stream) ==
    IF stream = NoStream THEN trk ELSE [trk EXCEPT ![stream] = "ended"]

\* a MediaRecorder whose tracks have all ended stops by itself: it goes
\* inactive and still fires its last dataavailable and its stop event
RecorderOfEndedStream(pcs, stream) ==
    IF stream # NoStream /\ pcs[stream] = "recording"
        THEN [pcs EXCEPT ![stream] = "stopping"] ELSE pcs

\* cleanupRecording without its setIsRecording(false)
cleanupKeepsRecording(stream, pcs) ==
    /\ tracks' = StopTracks(tracks, stream)
    /\ recPc' = RecorderOfEndedStream(pcs, stream)
    /\ streamRef' = NoStream
    /\ mediaRecorderRef' = NoRecorder
    /\ isRecording' = isRecording

\* cleanupRecording, run with streamRef.current = stream
cleanupRecording(stream, pcs) ==
    /\ tracks' = StopTracks(tracks, stream)
    /\ recPc' = RecorderOfEndedStream(pcs, stream)
    /\ streamRef' = NoStream
    /\ mediaRecorderRef' = NoRecorder
    /\ isRecording' = FALSE

\* initializeApp after loadItems settled
InitializeApp(outcome) ==
    /\ mounted
    /\ initPc = "loading"
    /\ initPc' = "done"
    /\ LET loaded == loadItems(db.recordings, IndexNames, "timestamp", outcome)
           recordingItems == loaded.items
           processedItems == SortItems(WithNewUrls(recordingItems, urlCount))
       IN IF loaded.outcome = "ok"
             THEN /\ urlCount + Len(recordingItems) <= MaxUrls
                  /\ urlCount' = urlCount + Len(recordingItems)
                  /\ objectUrls' = objectUrls \cup UrlsOf(processedItems)
                  /\ recordings' = processedItems
                  /\ toasts' = <<>>
             ELSE /\ toasts' = loadItemsToasts("recordings", loaded.outcome)
                                 \o <<Error("Failed to load saved audios")>>
                  /\ UNCHANGED <<urlCount, objectUrls, recordings>>
    /\ UNCHANGED <<ttsVars, storeVars, newsVars, db, now, mounted, sessionVars, pendingDeletes, pendingClears,
                   pendingUploads>>

\* startRecording up to its await of getUserMedia
StartRecording ==
    /\ mounted
    /\ IF isRecording
          THEN /\ toasts' = <<Error("Recording already in progress")>>
               /\ UNCHANGED pendingStarts
          ELSE /\ Cardinality({s \in Streams : tracks[s] # "none"}) + pendingStarts
                      < MaxStreams
               /\ pendingStarts' = pendingStarts + 1
               /\ toasts' = <<>>
    /\ UNCHANGED <<ttsVars, storeVars, newsVars, db, objectUrls, urlCount, now, mounted, initPc, recordings,
                   isRecording, streamRef, mediaRecorderRef, audioChunksRef, tracks,
                   recPc, onstop, audioBlob, newItem, pendingDeletes, pendingClears,
                   pendingUploads>>

\* startRecording after getUserMedia resolved with a new stream;
\* recorderBuilt = FALSE when both MediaRecorder constructors throw
GetUserMediaResolved(recorderBuilt) ==
    /\ mounted
    /\ pendingStarts > 0
    /\ pendingStarts' = pendingStarts - 1
    /\ LET stream == CHOOSE s \in Streams :
                        tracks[s] = "none" /\ \A q \in Streams : q < s => tracks[q] # "none"
           acquired == [tracks EXCEPT ![stream] = "live"]
       IN /\ audioChunksRef' = <<>>
          /\ IF recorderBuilt
                THEN /\ tracks' = acquired
                     /\ streamRef' = stream
                     /\ recPc' = [recPc EXCEPT ![stream] = "recording"]
                     /\ mediaRecorderRef' = stream
                     /\ isRecording' = TRUE
                     /\ toasts' = <<Success("Recording started")>>
                ELSE /\ tracks' = StopTracks(acquired, stream)
                     /\ recPc' = recPc
                     /\ streamRef' = NoStream
                     /\ mediaRecorderRef' = NoRecorder
                     /\ isRecording' = FALSE
                     /\ toasts' = <<Error("Failed to start recording. Please check microphone access.")>>
    /\ UNCHANGED <<ttsVars, storeVars, newsVars, db, objectUrls, urlCount, now, mounted, initPc, recordings,
                   onstop, audioBlob, newItem, pendingDeletes, pendingClears,
                   pendingUploads>>

DeviceErrors == {"NotAllowedError", "NotFoundError", "OtherError"}

\* startRecording after getUserMedia rejected
GetUserMediaRejected(name) ==
    /\ mounted
    /\ pendingStarts > 0
    /\ pendingStarts' = pendingStarts - 1
    /\ toasts' = <<Error(CASE name = "NotAllowedError" ->
                               "Microphone access denied. Please check permissions."
                          [] name = "NotFoundError" ->
                               "No microphone detected on your device."
                          [] OTHER ->
                               "Failed to start recording. Please check microphone access.")>>
    /\ cleanupRecording(streamRef, recPc)
    /\ UNCHANGED <<ttsVars, storeVars, newsVars, db, objectUrls, urlCount, now, mounted, initPc, recordings,
                   audioChunksRef, onstop, audioBlob, newItem, pendingDeletes,
                   pendingClears,
                   pendingUploads>>

\* recorder.ondataavailable with a non-empty chunk
OnDataAvailable(r) ==
    /\ mounted
    /\ recPc[r] \in {"recording", "stopping"}
    /\ Len(audioChunksRef) < MaxChunks
    /\ audioChunksRef' = Append(audioChunksRef, r)
    /\ toasts' = <<>>
    /\ UNCHANGED <<ttsVars, storeVars, newsVars, db, objectUrls, urlCount, now, mounted, initPc, recordings,
                   isRecording, streamRef, mediaRecorderRef, tracks, recPc, onstop,
                   audioBlob, newItem, pendingStarts, pendingDeletes, pendingClears,
                   pendingUploads>>

\* recorder.onerror; the failed recorder then stops by itself
OnError(r) ==
    /\ mounted
    /\ recPc[r] = "recording"
    /\ toasts' = <<Error("Recording error occurred")>>
    /\ cleanupRecording(streamRef, [recPc EXCEPT ![r] = "stopping"])
    /\ UNCHANGED <<ttsVars, storeVars, newsVars, db, objectUrls, urlCount, now, mounted, initPc, recordings,
                   audioChunksRef, onstop, audioBlob, newItem, pendingStarts,
                   pendingDeletes, pendingClears,
                   pendingUploads>>

\* stopRecording: the guard, recorder.onstop = ..., recorder.stop()
StopRecording ==
    /\ mounted
    /\ LET recorder == mediaRecorderRef
       IN IF recorder = NoRecorder \/ recPc[recorder] # "recording"
             THEN /\ toasts' = <<Error("No active recording to stop")>>
                  /\ UNCHANGED <<recPc, onstop>>
             ELSE /\ onstop' = [onstop EXCEPT ![recorder] = TRUE]
                  /\ recPc' = [recPc EXCEPT ![recorder] = "stopping"]
                  /\ toasts' = <<>>
    /\ UNCHANGED <<ttsVars, storeVars, newsVars, db, objectUrls, urlCount, now, mounted, initPc, recordings,
                   isRecording, streamRef, mediaRecorderRef, audioChunksRef, tracks,
                   audioBlob, newItem, pendingStarts, pendingDeletes, pendingClears,
                   pendingUploads>>

\* new Blob(chunks).size, in chunks: ondataavailable buffers only chunks of
\* size > 0
BlobSize(chunks) == Len(chunks)

\* onstop as the earlier revision had it: no check of the captured data
NoCaptureCheck(chunks) == ""

\* the two checks onstop makes before it builds an item: no chunk in the buffer,
\* or a blob of size 0 (every buffered chunk has size > 0, see ondataavailable);
\* the message of the error raised, "" when the capture is accepted
CaptureError(chunks) ==
    IF Len(chunks) = 0 THEN "No audio data captured"
    ELSE IF BlobSize(chunks) = 0 THEN "Recorded audio is empty"
    ELSE ""

\* the recorder's stop event: recorder.onstop up to its await of arrayBuffer()
OnStop(r) ==
    /\ mounted
    /\ recPc[r] = "stopping"
    /\ IF ~onstop[r]
          THEN /\ recPc' = [recPc EXCEPT ![r] = "inactive"]
               /\ toasts' = <<>>
               /\ UNCHANGED <<audioBlob, tracks, streamRef, mediaRecorderRef, isRecording>>
          ELSE IF CaptureError(audioChunksRef) # ""
          THEN /\ toasts' = <<Error(CaptureError(audioChunksRef))>>
               /\ cleanupRecording(streamRef, [recPc EXCEPT ![r] = "inactive"])
               /\ UNCHANGED audioBlob
          ELSE /\ audioBlob' = [audioBlob EXCEPT ![r] = audioChunksRef]
               /\ recPc' = [recPc EXCEPT ![r] = "buffer"]
               /\ toasts' = <<>>
               /\ UNCHANGED <<tracks, streamRef, mediaRecorderRef, isRecording>>
    /\ UNCHANGED <<ttsVars, storeVars, newsVars, db, objectUrls, urlCount, now, mounted, initPc, recordings,
                   audioChunksRef, onstop, newItem, pendingStarts, pendingDeletes,
                   pendingClears,
                   pendingUploads>>

\* recorder.onstop after audioBlob.arrayBuffer() settled, up to its await of addItem
OnStopBuffered(r, converted, tick) ==
    /\ mounted
    /\ recPc[r] = "buffer"
    /\ IF converted
          THEN /\ urlCount < MaxUrls
               /\ urlCount' = urlCount + 1
               /\ objectUrls' = objectUrls \cup {urlCount + 1}
               /\ newItem' = [newItem EXCEPT
                                ![r] = RecordingItem(now, urlCount + 1, audioBlob[r])]
               /\ now' = Clock(tick)
               /\ recPc' = [recPc EXCEPT ![r] = "put"]
               /\ toasts' = <<>>
               /\ UNCHANGED <<tracks, streamRef, mediaRecorderRef, isRecording,
                              audioBlob>>
          ELSE /\ ~tick
               /\ toasts' = <<Error("Failed to process recording")>>
               /\ cleanupRecording(streamRef, [recPc EXCEPT ![r] = "inactive"])
               /\ audioBlob' = [audioBlob EXCEPT ![r] = <<>>]
               /\ UNCHANGED <<urlCount, objectUrls, newItem, now>>
    /\ UNCHANGED <<ttsVars, storeVars, newsVars, db, mounted, initPc, recordings, audioChunksRef, onstop,
                   pendingStarts, pendingDeletes, pendingClears,
                   pendingUploads>>

\* the save step as the earlier revision had it: the URL is kept on failure
SaveRecordingKeepsUrl(item, outcome) ==
    IF outcome = "ok"
       THEN /\ recordings' = <<item>> \o recordings
            /\ toasts' = <<Success("Recording saved")>>
            /\ UNCHANGED objectUrls
       ELSE /\ toasts' = addItemToasts(outcome) \o <<Error("Failed to save recording")>>
            /\ UNCHANGED <<objectUrls, recordings>>

\* what onstop does with the result of addItem, before cleanupRecording
SaveRecording(item, outcome) ==
    IF outcome = "ok"
       THEN /\ recordings' = <<item>> \o recordings
            /\ toasts' = <<Success("Recording saved")>>
            /\ UNCHANGED objectUrls
       ELSE /\ toasts' = addItemToasts(outcome) \o <<Error("Failed to save recording")>>
            /\ objectUrls' = objectUrls \ {item.audioUrl}
            /\ UNCHANGED recordings

\* recorder.onstop after addItem settled
OnStopSaved(r, outcome) ==
    /\ mounted
    /\ recPc[r] = "put"
    /\ LET saved == addItem(db.recordings, newItem[r], outcome)
       IN /\ db' = [db EXCEPT !.recordings = saved.records]
          /\ SaveRecording(newItem[r], saved.outcome)
    /\ cleanupRecording(streamRef, [recPc EXCEPT ![r] = "inactive"])
    /\ audioBlob' = [audioBlob EXCEPT ![r] = <<>>]
    /\ newItem' = [newItem EXCEPT ![r] = NoItem]
    /\ UNCHANGED <<ttsVars, storeVars, newsVars, urlCount, now, mounted, initPc, audioChunksRef, onstop,
                   pendingStarts, pendingDeletes, pendingClears,
                   pendingUploads>>

\* the recordings value seen by the cleanup of the mount effect: the effect has
\* no dependencies, so its closure keeps the list of the first render
MountRecordings == <<>>

\* deleteRecording up to its await of deleteItem
DeleteRecording(id) ==
    /\ mounted
    /\ toasts' = <<>>
    /\ IF id = ""
          THEN UNCHANGED <<objectUrls, pendingDeletes>>
          ELSE LET itemToDelete == Find(recordings, id)
               IN /\ Cardinality(pendingDeletes) + Cardinality(pendingClears) < MaxPending
                  /\ objectUrls' = objectUrls \ {itemToDelete.audioUrl}
                  /\ pendingDeletes' = pendingDeletes \cup
                        {[id |-> id,
                          revoked |-> objectUrls \cap {itemToDelete.audioUrl}]}
    /\ UNCHANGED <<ttsVars, storeVars, newsVars, db, urlCount, now, mounted, initPc, recordings, sessionVars,
                   pendingClears,
                   pendingUploads>>

\* deleteRecording as an optimistic update: the item leaves the list whatever
\* the store answered
DeleteRecordingOptimistic(call, outcome) ==
    /\ mounted
    /\ call \in pendingDeletes
    /\ pendingDeletes' = pendingDeletes \ {call}
    /\ db' = [db EXCEPT !.recordings = deleteItem(db.recordings, call.id, outcome)]
    /\ recordings' = WithoutId(recordings, call.id)
    /\ toasts' = IF outcome = "ok" THEN <<Success("Recording deleted")>>
                 ELSE deleteItemToasts("recordings", outcome)
                        \o <<Error("Failed to delete recording")>>
    /\ UNCHANGED <<ttsVars, storeVars, newsVars, objectUrls, urlCount, now, mounted, initPc, sessionVars,
                   pendingClears,
                   pendingUploads>>

\* deleteRecording after deleteItem settled
DeleteRecordingDone(call, outcome) ==
    /\ mounted
    /\ call \in pendingDeletes
    /\ pendingDeletes' = pendingDeletes \ {call}
    /\ db' = [db EXCEPT !.recordings = deleteItem(db.recordings, call.id, outcome)]
    /\ IF outcome = "ok"
          THEN /\ recordings' = WithoutId(recordings, call.id)
               /\ toasts' = <<Success("Recording deleted")>>
          ELSE /\ toasts' = deleteItemToasts("recordings", outcome)
                              \o <<Error("Failed to delete recording")>>
               /\ UNCHANGED recordings
    /\ UNCHANGED <<ttsVars, storeVars, newsVars, objectUrls, urlCount, now, mounted, initPc, sessionVars,
                   pendingClears,
                   pendingUploads>>

\* clearAllRecordings up to its await of clearStore
ClearAllRecordings ==
    /\ mounted
    /\ Cardinality(pendingDeletes) + Cardinality(pendingClears) < MaxPending
    /\ toasts' = <<>>
    /\ objectUrls' = objectUrls \ UrlsOf(recordings)
    /\ pendingClears' = pendingClears \cup
            {[revoked |-> objectUrls \cap UrlsOf(recordings)]}
    /\ UNCHANGED <<ttsVars, storeVars, newsVars, db, urlCount, now, mounted, initPc, recordings, sessionVars,
                   pendingDeletes,
                   pendingUploads>>

\* clearAllRecordings after clearStore settled
ClearAllRecordingsDone(call, outcome) ==
    /\ mounted
    /\ call \in pendingClears
    /\ pendingClears' = pendingClears \ {call}
    /\ db' = [db EXCEPT !.recordings = clearStore(db.recordings, outcome)]
    /\ IF outcome = "ok"
          THEN /\ recordings' = <<>>
               /\ toasts' = clearStoreToasts("recordings", TRUE, outcome)
                              \o <<Success("All recordings cleared")>>
          ELSE /\ toasts' = clearStoreToasts("recordings", TRUE, outcome)
                              \o <<Error("Failed to clear recordings.")>>
               /\ UNCHANGED recordings
    /\ UNCHANGED <<ttsVars, storeVars, newsVars, objectUrls, urlCount, now, mounted, initPc, sessionVars,
                   pendingDeletes,
                   pendingUploads>>

\* the batches of the file picker: the k-th file is named k, its type is the
\* accepted one or another
FileTypes == {"audio/mpeg", "audio/wav"}
Batches ==
    UNION {[1..n -> [name : {"file"}, type : FileTypes]] : n \in 0..MaxFiles}
FileName(files, k) == files[k].name \o toString(k)

\* the for loop of uploadRecordings from file k on: the index of the next file
\* that passes the type check (Len + 1 when none does) ...
RECURSIVE NextAccepted(_, _)
NextAccepted(files, k) ==
    IF k > Len(files) \/ files[k].type = "audio/mpeg" THEN k
    ELSE NextAccepted(files, k + 1)

\* ... and the toast of each file skipped on the way, files from .. to - 1
SkipToasts(files, from, to) ==
    [j \in 1..(to - from) |->
        Error("Unsupported file type: " \o FileName(files, from + j - 1))]

UploadItem(timestamp, url, audioBinary) ==
    [id |-> toString(timestamp), timestamp |-> timestamp, audioUrl |-> url,
     audioBinary |-> audioBinary, text |-> "Upload " \o toString(timestamp)]

\* uploadRecordings up to its first await of file.arrayBuffer()
UploadRecordings(files) ==
    /\ mounted
    /\ IF Len(files) = 0
          THEN /\ toasts' = <<Error("No files selected for upload.")>>
               /\ UNCHANGED pendingUploads
          ELSE LET k == NextAccepted(files, 1)
               IN /\ Len(pendingUploads) < MaxUploads
                  /\ toasts' = SkipToasts(files, 1, k)
                  /\ pendingUploads' =
                        IF k > Len(files) THEN pendingUploads
                        ELSE Append(pendingUploads,
                                    [files |-> files, k |-> k, pc |-> "buffer",
                                     newItem |-> NoItem, newRecordings |-> <<>>])
    /\ UNCHANGED <<ttsVars, storeVars, newsVars, db, objectUrls, urlCount, now, mounted, initPc, recordings,
                   sessionVars, pendingDeletes, pendingClears>>

\* uploadRecordings after file.arrayBuffer() settled, up to its await of addItem
UploadBuffered(c, converted, tick) ==
    /\ mounted
    /\ c \in 1..Len(pendingUploads)
    /\ pendingUploads[c].pc = "buffer"
    /\ LET call == pendingUploads[c]
       IN IF converted
             THEN /\ urlCount < MaxUploadUrls
                  /\ urlCount' = urlCount + 1
                  /\ objectUrls' = objectUrls \cup {urlCount + 1}
                  /\ now' = Clock(tick)
                  /\ pendingUploads' = [pendingUploads EXCEPT ![c] =
                        [call EXCEPT !.pc = "put",
                                     !.newItem = UploadItem(now, urlCount + 1,
                                                    <<FileName(call.files, call.k)>>)]]
                  /\ toasts' = <<>>
             ELSE /\ ~tick
                  /\ toasts' = <<Error("Failed to upload recordings.")>>
                  /\ pendingUploads' = RemoveAt(pendingUploads, c)
                  /\ UNCHANGED <<urlCount, objectUrls, now>>
    /\ UNCHANGED <<ttsVars, storeVars, newsVars, db, mounted, initPc, recordings, sessionVars,
                   pendingDeletes, pendingClears>>

\* uploadRecordings after addItem settled: the rest of the loop up to the next
\* await, or the end of the call
UploadSaved(c, outcome) ==
    /\ mounted
    /\ c \in 1..Len(pendingUploads)
    /\ pendingUploads[c].pc = "put"
    /\ LET call == pendingUploads[c]
           saved == addItem(db.recordings, call.newItem, outcome)
           newRecordings == Append(call.newRecordings, call.newItem)
           k == NextAccepted(call.files, call.k + 1)
       IN /\ db' = [db EXCEPT !.recordings = saved.records]
          /\ IF saved.outcome # "ok"
                THEN /\ toasts' = addItemToasts(saved.outcome)
                                    \o <<Error("Failed to upload recordings.")>>
                     /\ pendingUploads' = RemoveAt(pendingUploads, c)
                     /\ UNCHANGED recordings
                ELSE IF k > Len(call.files)
                THEN /\ recordings' = newRecordings \o recordings
                     /\ toasts' = SkipToasts(call.files, call.k + 1, k)
                            \o <<Success(toString(Len(newRecordings))
                                    \o " recording(s) uploaded successfully.")>>
                     /\ pendingUploads' = RemoveAt(pendingUploads, c)
                ELSE /\ toasts' = SkipToasts(call.files, call.k + 1, k)
                     /\ pendingUploads' = [pendingUploads EXCEPT ![c] =
                            [call EXCEPT !.k = k, !.pc = "buffer", !.newItem = NoItem,
                                         !.newRecordings = newRecordings]]
                     /\ UNCHANGED recordings
    /\ UNCHANGED <<ttsVars, storeVars, newsVars, objectUrls, urlCount, now, mounted, initPc, sessionVars,
                   pendingDeletes, pendingClears>>

\* the cleanup returned by the mount effect; nothing of the hook runs after it
Unmount ==
    /\ mounted
    /\ mounted' = FALSE
    /\ toasts' = <<>>
    /\ objectUrls' = objectUrls \ UrlsOf(MountRecordings)
    /\ tracks' = StopTracks(tracks, streamRef)
    /\ recPc' = RecorderOfEndedStream(recPc, streamRef)
    /\ UNCHANGED <<ttsVars, storeVars, newsVars, db, urlCount, now, initPc, recordings, isRecording, streamRef,
                   mediaRecorderRef, audioChunksRef, onstop, audioBlob, newItem,
                   pendingStarts, pendingDeletes, pendingClears,
                   pendingUploads>>


(* -------------------------- useTextToSpeech ---------------------------- *)

Languages == {"en", "vi"}
SettingsTexts == {<<>>, <<"h", "i">>}
SpeechTexts == {<<>>, <<" ">>, <<"h", "i">>}

\* the history value seen by the cleanup of the mount effect (first render)
MountHistory == <<>>

\* the auto-save effect: saveSettings() with the state and isInitializing of the
\* render that follows the change, up to its await of clearStore; alone records
\* whether the call has run without another save in flight, clean whether no
\* save it has overlapped with, directly or through others, has failed
saveSettings(st, initializing, saves) ==
    IF initializing THEN saves
    ELSE [k \in 1..Len(saves) |-> [saves[k] EXCEPT !.alone = FALSE]]
            \o <<[pc |-> "clear", settings |-> st, alone |-> saves = <<>>,
                  clean |-> \A k \in 1..Len(saves) : saves[k].clean]>>

\* a store that settled the operations of the saves in whatever order
SettlesInAnyOrder(saves, k) == TRUE

\* whether the store operation of save k is the next to settle: the open
\* requests on one database are served in the order they were made and the
\* readwrite transactions on one store run in the order they were created, so
\* of the operations outstanding the one issued first settles first
Settles(saves, k) == k = 1

\* the saves in flight once save k has failed and ended
SaveFailed(saves, k) ==
    LET rest == RemoveAt(saves, k)
    IN [j \in 1..Len(rest) |-> [rest[j] EXCEPT !.clean = FALSE]]

\* initializeApp without its finally: a load that fails leaves the flag set
InitializingWithoutFinally(outcome) == outcome # "ok"

\* isInitializing once initializeApp has ended: setIsInitializing(false) is in
\* the finally, so it runs whether the loads succeeded or threw
InitializingAfter(outcome) == FALSE

\* initializeApp after loadItems("ttsHistory") settled
InitializeHistory(outcome) ==
    /\ ttsMounted
    /\ ttsInitPc = "history"
    /\ LET loaded == loadItems(db.ttsHistory, IndexNames, "timestamp", outcome)
           historyItems == loaded.items
           processedItems == SortItems(WithNewUrls(historyItems, urlCount))
       IN IF loaded.outcome = "ok"
             THEN /\ urlCount + Len(historyItems) <= MaxUrls
                  /\ urlCount' = urlCount + Len(historyItems)
                  /\ objectUrls' = objectUrls \cup UrlsOf(processedItems)
                  /\ history' = processedItems
                  /\ toasts' = <<>>
                  /\ ttsInitPc' = "settings"
                  /\ UNCHANGED <<isInitializing, pendingSaves>>
             ELSE /\ toasts' = loadItemsToasts("ttsHistory", loaded.outcome)
                        \o <<Error("Failed to load saved settings and history")>>
                  /\ ttsInitPc' = "done"
                  /\ isInitializing' = InitializingAfter(loaded.outcome)
                  /\ pendingSaves' = saveSettings(state, isInitializing', pendingSaves)
                  /\ UNCHANGED <<urlCount, objectUrls, history>>
    /\ UNCHANGED <<recorderVars, storeVars, newsVars, db, now, ttsMounted, state, audioUrl, isLoading,
                   pendingSpeech, pendingHistoryDeletes, pendingHistoryClears>>

\* initializeApp after loadItems("ttsSettings") settled
InitializeSettings(outcome) ==
    /\ ttsMounted
    /\ ttsInitPc = "settings"
    /\ ttsInitPc' = "done"
    /\ isInitializing' = InitializingAfter(outcome)
    /\ LET loaded == loadItems(db.ttsSettings, IndexNames, "id", outcome)
           settings == loaded.items
       IN IF loaded.outcome = "ok"
             THEN /\ state' = IF Len(settings) > 0
                                 THEN [language |-> settings[1].language,
                                       text |-> settings[1].text,
                                       isOptimizeWithAI |-> settings[1].isOptimizeWithAI]
                                 ELSE state
                  /\ toasts' = <<>>
             ELSE /\ toasts' = loadItemsToasts("ttsSettings", loaded.outcome)
                        \o <<Error("Failed to load saved settings and history")>>
                  /\ UNCHANGED state
    /\ pendingSaves' = saveSettings(state', isInitializing', pendingSaves)
    /\ UNCHANGED <<recorderVars, storeVars, newsVars, db, objectUrls, urlCount, now, ttsMounted, audioUrl,
                   history, isLoading, pendingSpeech, pendingHistoryDeletes,
                   pendingHistoryClears>>

\* setLanguage / setText / setIsOptimizeWithAI, and the auto-save effect of the
\* render they cause
SetState(st) ==
    /\ ttsMounted
    /\ Len(pendingSaves) < MaxSaves
    /\ state' = st
    /\ pendingSaves' = saveSettings(st, isInitializing, pendingSaves)
    /\ toasts' = <<>>
    /\ UNCHANGED <<recorderVars, storeVars, newsVars, db, objectUrls, urlCount, now, ttsMounted, ttsInitPc,
                   isInitializing, audioUrl, history, isLoading, pendingSpeech,
                   pendingHistoryDeletes, pendingHistoryClears>>

setLanguage(value) == SetState([state EXCEPT !.language = value])
setText(value) == SetState([state EXCEPT !.text = value])
setIsOptimizeWithAI(value) == SetState([state EXCEPT !.isOptimizeWithAI = value])

\* saveSettings after clearStore settled, up to its await of addItem
SaveSettingsCleared(k, outcome) ==
    /\ ttsMounted
    /\ k \in 1..Len(pendingSaves)
    /\ pendingSaves[k].pc = "clear"
    /\ Settles(pendingSaves, k)
    /\ db' = [db EXCEPT !.ttsSettings = clearStore(db.ttsSettings, outcome)]
    /\ IF outcome = "ok"
          THEN /\ pendingSaves' = Append(RemoveAt(pendingSaves, k),
                                        [pendingSaves[k] EXCEPT !.pc = "add"])
               /\ toasts' = clearStoreToasts("ttsSettings", FALSE, outcome)
          ELSE /\ pendingSaves' = SaveFailed(pendingSaves, k)
               /\ toasts' = clearStoreToasts("ttsSettings", FALSE, outcome)
                              \o <<Error("Failed to save settings")>>
    /\ UNCHANGED <<recorderVars, storeVars, newsVars, objectUrls, urlCount, now, ttsMounted, ttsInitPc,
                   isInitializing, state, audioUrl, history, isLoading, pendingSpeech,
                   pendingHistoryDeletes, pendingHistoryClears>>

\* saveSettings after addItem settled
SaveSettingsAdded(k, outcome) ==
    /\ ttsMounted
    /\ k \in 1..Len(pendingSaves)
    /\ pendingSaves[k].pc = "add"
    /\ Settles(pendingSaves, k)
    /\ LET saved == addItem(db.ttsSettings, TTSSettings(pendingSaves[k].settings),
                            outcome)
       IN /\ db' = [db EXCEPT !.ttsSettings = saved.records]
          /\ IF saved.outcome = "ok"
                THEN /\ toasts' = <<>>
                     /\ pendingSaves' = RemoveAt(pendingSaves, k)
                ELSE /\ toasts' = addItemToasts(saved.outcome)
                                    \o <<Error("Failed to save settings")>>
                     /\ pendingSaves' = SaveFailed(pendingSaves, k)
    /\ UNCHANGED <<recorderVars, storeVars, newsVars, objectUrls, urlCount, now, ttsMounted, ttsInitPc,
                   isInitializing, state, audioUrl, history, isLoading, pendingSpeech,
                   pendingHistoryDeletes, pendingHistoryClears>>

\* generateSpeech up to its await of fetch; overlapped records whether the
\* call has been in flight together with another one
generateSpeech(text) ==
    /\ ttsMounted
    /\ IF trim(text) = <<>>
          THEN /\ toasts' = <<Error("Text input cannot be empty!")>>
               /\ UNCHANGED <<isLoading, audioUrl, pendingSpeech>>
          ELSE /\ Len(pendingSpeech) < MaxOverlap
               /\ isLoading' = TRUE
               /\ audioUrl' = NoUrl
               /\ pendingSpeech' =
                    Append([k \in 1..Len(pendingSpeech) |->
                                [pendingSpeech[k] EXCEPT !.overlapped = TRUE]],
                           [pc |-> "fetch", text |-> text,
                            overlapped |-> pendingSpeech # <<>>])
               /\ toasts' = <<>>
    /\ UNCHANGED <<recorderVars, storeVars, newsVars, db, objectUrls, urlCount, now, ttsMounted, ttsInitPc,
                   isInitializing, state, history, pendingSaves,
                   pendingHistoryDeletes, pendingHistoryClears>>

\* generateSpeech as an optimistic update: the item is listed and made current
\* as soon as the audio has arrived, before addItem is awaited
SpeechFetchedOptimistic(k, fetched, tick, tock) ==
    /\ ttsMounted
    /\ k \in 1..Len(pendingSpeech)
    /\ pendingSpeech[k].pc = "fetch"
    /\ fetched
    /\ urlCount < MaxUrls
    /\ urlCount' = urlCount + 1
    /\ objectUrls' = objectUrls \cup {urlCount + 1}
    /\ now' = ClockAfter(Clock(tick), tock)
    /\ LET item == TTSHistoryItem(now, Clock(tick), urlCount + 1, <<"mp3">>,
                                  pendingSpeech[k].text)
       IN /\ pendingSpeech' = [pendingSpeech EXCEPT
                                    ![k] = [pc |-> "put", newItem |-> item,
                                            overlapped |-> pendingSpeech[k].overlapped]]
          /\ history' = <<item>> \o history
          /\ audioUrl' = item.audioUrl
    /\ toasts' = <<>>
    /\ UNCHANGED <<recorderVars, storeVars, newsVars, db, ttsMounted, ttsInitPc, isInitializing, state,
                   isLoading, pendingSaves, pendingHistoryDeletes,
                   pendingHistoryClears>>

\* generateSpeech after fetch and blob.arrayBuffer() settled (fetched = FALSE when
\* either rejected: one catch serves both), up to its await of addItem; the
\* clock may advance between the two Date.now() reads (tick) and after them (tock)
SpeechFetched(k, fetched, tick, tock) ==
    /\ ttsMounted
    /\ k \in 1..Len(pendingSpeech)
    /\ pendingSpeech[k].pc = "fetch"
    /\ IF fetched
          THEN /\ urlCount < MaxUrls
               /\ urlCount' = urlCount + 1
               /\ objectUrls' = objectUrls \cup {urlCount + 1}
               /\ now' = ClockAfter(Clock(tick), tock)
               /\ pendingSpeech' = [pendingSpeech EXCEPT ![k] =
                    [pc |-> "put",
                     newItem |-> TTSHistoryItem(now, Clock(tick), urlCount + 1,
                                                <<"mp3">>, pendingSpeech[k].text),
                     overlapped |-> pendingSpeech[k].overlapped]]
               /\ toasts' = <<>>
               /\ UNCHANGED isLoading
          ELSE /\ ~tick /\ ~tock
               /\ toasts' = <<Error("Failed to generate speech")>>
               /\ isLoading' = FALSE
               /\ pendingSpeech' = RemoveAt(pendingSpeech, k)
               /\ UNCHANGED <<urlCount, objectUrls, now>>
    /\ UNCHANGED <<recorderVars, storeVars, newsVars, db, ttsMounted, ttsInitPc, isInitializing, state,
                   audioUrl, history, pendingSaves, pendingHistoryDeletes,
                   pendingHistoryClears>>

\* the save step as a revision that lists the item whatever addItem answered
SaveSpeechAlways(item, outcome) ==
    /\ history' = <<item>> \o history
    /\ audioUrl' = item.audioUrl

\* what generateSpeech does with the result of addItem
SaveSpeech(item, outcome) ==
    IF outcome = "ok"
       THEN /\ history' = <<item>> \o history
            /\ audioUrl' = item.audioUrl
       ELSE /\ audioUrl' = item.audioUrl
            /\ UNCHANGED history

\* generateSpeech after addItem settled
SpeechSaved(k, outcome) ==
    /\ ttsMounted
    /\ k \in 1..Len(pendingSpeech)
    /\ pendingSpeech[k].pc = "put"
    /\ LET saved == addItem(db.ttsHistory, pendingSpeech[k].newItem, outcome)
       IN /\ db' = [db EXCEPT !.ttsHistory = saved.records]
          /\ SaveSpeech(pendingSpeech[k].newItem, saved.outcome)
          /\ toasts' = addItemToasts(saved.outcome)
    /\ isLoading' = FALSE
    /\ pendingSpeech' = RemoveAt(pendingSpeech, k)
    /\ UNCHANGED <<recorderVars, storeVars, newsVars, objectUrls, urlCount, now, ttsMounted, ttsInitPc,
                   isInitializing, state, pendingSaves, pendingHistoryDeletes,
                   pendingHistoryClears>>

\* deleteHistoryItem up to its await of deleteItem; the closure keeps
\* itemToDelete and the audioUrl of its render
deleteHistoryItem(id) ==
    /\ ttsMounted
    /\ toasts' = <<>>
    /\ IF id = ""
          THEN UNCHANGED <<objectUrls, pendingHistoryDeletes>>
          ELSE LET itemToDelete == Find(history, id)
               IN /\ Cardinality(pendingHistoryDeletes)
                        + Cardinality(pendingHistoryClears) < MaxPending
                  /\ objectUrls' = objectUrls \ {itemToDelete.audioUrl}
                  /\ pendingHistoryDeletes' = pendingHistoryDeletes \cup
                        {[id |-> id,
                          current |-> itemToDelete.found
                                        /\ itemToDelete.audioUrl = audioUrl,
                          revoked |-> objectUrls \cap {itemToDelete.audioUrl}]}
    /\ UNCHANGED <<recorderVars, storeVars, newsVars, db, urlCount, now, ttsMounted, ttsInitPc,
                   isInitializing, state, audioUrl, history, isLoading, pendingSpeech,
                   pendingSaves, pendingHistoryClears>>

\* deleteHistoryItem after deleteItem settled
DeleteHistoryItemDone(call, outcome) ==
    /\ ttsMounted
    /\ call \in pendingHistoryDeletes
    /\ pendingHistoryDeletes' = pendingHistoryDeletes \ {call}
    /\ db' = [db EXCEPT !.ttsHistory = deleteItem(db.ttsHistory, call.id, outcome)]
    /\ IF outcome = "ok"
          THEN /\ history' = WithoutId(history, call.id)
               /\ audioUrl' = IF call.current THEN NoUrl ELSE audioUrl
               /\ toasts' = <<Success("Speech item successfully removed")>>
          ELSE /\ toasts' = deleteItemToasts("ttsHistory", outcome)
                              \o <<Error("Error attempting to delete history entry")>>
               /\ UNCHANGED <<history, audioUrl>>
    /\ UNCHANGED <<recorderVars, storeVars, newsVars, objectUrls, urlCount, now, ttsMounted, ttsInitPc,
                   isInitializing, state, isLoading, pendingSpeech, pendingSaves,
                   pendingHistoryClears>>

\* clearAllHistory up to its await of clearStore
clearAllHistory ==
    /\ ttsMounted
    /\ Cardinality(pendingHistoryDeletes) + Cardinality(pendingHistoryClears)
            < MaxPending
    /\ toasts' = <<>>
    /\ objectUrls' = objectUrls \ UrlsOf(history)
    /\ pendingHistoryClears' = pendingHistoryClears \cup
            {[revoked |-> objectUrls \cap UrlsOf(history)]}
    /\ UNCHANGED <<recorderVars, storeVars, newsVars, db, urlCount, now, ttsMounted, ttsInitPc,
                   isInitializing, state, audioUrl, history, isLoading, pendingSpeech,
                   pendingSaves, pendingHistoryDeletes>>

\* clearAllHistory after clearStore settled
ClearAllHistoryDone(call, outcome) ==
    /\ ttsMounted
    /\ call \in pendingHistoryClears
    /\ pendingHistoryClears' = pendingHistoryClears \ {call}
    /\ db' = [db EXCEPT !.ttsHistory = clearStore(db.ttsHistory, outcome)]
    /\ IF outcome = "ok"
          THEN /\ history' = <<>>
               /\ audioUrl' = NoUrl
               /\ toasts' = clearStoreToasts("ttsHistory", TRUE, outcome)
                    \o <<Success("Complete speech history successfully erased")>>
          ELSE /\ toasts' = clearStoreToasts("ttsHistory", TRUE, outcome)
                    \o <<Error("Issues encountered while clearing history")>>
               /\ UNCHANGED <<history, audioUrl>>
    /\ UNCHANGED <<recorderVars, storeVars, newsVars, objectUrls, urlCount, now, ttsMounted, ttsInitPc,
                   isInitializing, state, isLoading, pendingSpeech, pendingSaves,
                   pendingHistoryDeletes>>

\* the cleanup returned by the mount effect; nothing of the hook runs after it
TTSUnmount ==
    /\ ttsMounted
    /\ ttsMounted' = FALSE
    /\ toasts' = <<>>
    /\ objectUrls' = objectUrls \ UrlsOf(MountHistory)
    /\ UNCHANGED <<recorderVars, storeVars, newsVars, db, urlCount, now, ttsInitPc, isInitializing, state,
                   audioUrl, history, isLoading, pendingSpeech, pendingSaves,
                   pendingHistoryDeletes, pendingHistoryClears>>

(* --------------------------- specifications ---------------------------- *)

RecorderNext ==
    \/ \E outcome \in StoreOutcomes : InitializeApp(outcome)
    \/ StartRecording
    \/ \E recorderBuilt \in BOOLEAN : GetUserMediaResolved(recorderBuilt)
    \/ \E name \in DeviceErrors : GetUserMediaRejected(name)
    \/ \E r \in Streams : OnDataAvailable(r)
    \/ \E r \in Streams : OnError(r)
    \/ StopRecording
    \/ \E r \in Streams : OnStop(r)
    \/ \E r \in Streams, converted \in BOOLEAN, tick \in BOOLEAN :
            OnStopBuffered(r, converted, tick)
    \/ \E r \in Streams, outcome \in StoreOutcomes : OnStopSaved(r, outcome)
    \/ \E id \in KnownIds(recordings, db.recordings) \cup {""} : DeleteRecording(id)
    \/ \E call \in pendingDeletes, outcome \in StoreOutcomes :
            DeleteRecordingDone(call, outcome)
    \/ ClearAllRecordings
    \/ \E call \in pendingClears, outcome \in StoreOutcomes :
            ClearAllRecordingsDone(call, outcome)
    \/ Unmount

RecorderInit ==
    Init /\ db.recordings \subseteq {PersistedItem} /\ db.ttsHistory = {}
         /\ db.ttsSettings = {}

RecorderSpec == RecorderInit /\ [][RecorderNext]_vars

\* the speech side of useTextToSpeech: initialization with the save it
\* triggers, synthesis, history deletion, teardown
SpeechNext ==
    \/ \E outcome \in StoreOutcomes : InitializeHistory(outcome)
    \/ \E outcome \in StoreOutcomes : InitializeSettings(outcome)
    \/ \E k \in 1..Len(pendingSaves), outcome \in StoreOutcomes :
            SaveSettingsCleared(k, outcome)
    \/ \E k \in 1..Len(pendingSaves), outcome \in StoreOutcomes :
            SaveSettingsAdded(k, outcome)
    \/ \E text \in SpeechTexts : Len(pendingSpeech) < MaxSpeech /\ generateSpeech(text)
    \/ \E k \in 1..Len(pendingSpeech), fetched \in BOOLEAN, tick \in BOOLEAN,
            tock \in BOOLEAN : SpeechFetched(k, fetched, tick, tock)
    \/ \E k \in 1..Len(pendingSpeech), outcome \in StoreOutcomes :
            SpeechSaved(k, outcome)
    \/ \E id \in KnownIds(history, db.ttsHistory) \cup {""} : deleteHistoryItem(id)
    \/ \E call \in pendingHistoryDeletes, outcome \in StoreOutcomes :
            DeleteHistoryItemDone(call, outcome)
    \/ clearAllHistory
    \/ \E call \in pendingHistoryClears, outcome \in StoreOutcomes :
            ClearAllHistoryDone(call, outcome)
    \/ TTSUnmount

SpeechInit == Init /\ db.recordings = {} /\ db.ttsHistory \subseteq {PersistedSpeech}

SpeechSpec == SpeechInit /\ [][SpeechNext]_vars

\* the settings side of useTextToSpeech: initialization, the setters and the
\* auto-save
SettingsNext ==
    \/ \E outcome \in StoreOutcomes : InitializeHistory(outcome)
    \/ \E outcome \in StoreOutcomes : InitializeSettings(outcome)
    \/ \E value \in Languages : setLanguage(value)
    \/ \E value \in SettingsTexts : setText(value)
    \/ \E value \in BOOLEAN : setIsOptimizeWithAI(value)
    \/ \E k \in 1..Len(pendingSaves), outcome \in StoreOutcomes :
            SaveSettingsCleared(k, outcome)
    \/ \E k \in 1..Len(pendingSaves), outcome \in StoreOutcomes :
            SaveSettingsAdded(k, outcome)

SettingsInit == Init /\ db.recordings = {} /\ db.ttsHistory = {}

SettingsSpec == SettingsInit /\ [][SettingsNext]_vars

\* the recorder with the scheduling the platform gives it: a recorder that was
\* stopped fires its stop event, and the promises onstop awaits (arrayBuffer,
\* addItem) settle
RecorderLiveSpec ==
    /\ RecorderSpec
    /\ \A r \in Streams :
        /\ WF_vars(OnStop(r))
        /\ WF_vars(\E converted \in BOOLEAN, tick \in BOOLEAN :
                        OnStopBuffered(r, converted, tick))
        /\ WF_vars(\E outcome \in StoreOutcomes : OnStopSaved(r, outcome))

\* uploads: initialization, batches from the file picker, teardown
UploadNext ==
    \/ \E outcome \in StoreOutcomes : InitializeApp(outcome)
    \/ \E files \in Batches : UploadRecordings(files)
    \/ \E c \in 1..Len(pendingUploads), converted \in BOOLEAN, tick \in BOOLEAN :
            UploadBuffered(c, converted, tick)
    \/ \E c \in 1..Len(pendingUploads), outcome \in StoreOutcomes :
            UploadSaved(c, outcome)
    \/ Unmount

UploadInit == RecorderInit

UploadSpec == UploadInit /\ [][UploadNext]_vars

(* ------------- libs/indexedDBHelpers.ts, a call step by step ------------ *)

StoreOps == {"addItem", "deleteItem", "loadItems", "clearStore"}

\* addItem / deleteItem / loadItems / clearStore on the store "recordings",
\* up to the await of initDB
CallHelper(op, item) ==
    /\ Len(storeCalls) < MaxCalls
    /\ storeCalls' = Append(storeCalls, [op |-> op, item |-> item, pc |-> "open"])
    /\ toasts' = <<>>
    /\ UNCHANGED <<recorderVars, ttsVars, newsVars, db, objectUrls, urlCount, now, connections>>

\* initDB settles: request.onsuccess resolves with a new connection, on which
\* the helper creates its transaction and makes its request; request.onerror
\* raises the toast and rejects, and the helper rethrows
initDB(c, opened) ==
    /\ c \in 1..Len(storeCalls)
    /\ storeCalls[c].pc = "open"
    /\ IF opened
          THEN /\ connections < MaxConnections
               /\ connections' = connections + 1
               /\ storeCalls' = [storeCalls EXCEPT ![c].pc = "request"]
               /\ toasts' = <<>>
          ELSE /\ toasts' = initDBToasts("openError")
               /\ storeCalls' = RemoveAt(storeCalls, c)
               /\ UNCHANGED connections
    /\ UNCHANGED <<recorderVars, ttsVars, newsVars, db, objectUrls, urlCount, now>>

\* the toasts of a helper whose request settled
RequestToasts(op, outcome) ==
    CASE op = "deleteItem" -> deleteItemToasts("recordings", outcome)
      [] op = "loadItems" -> loadItemsToasts("recordings", outcome)
      [] op = "clearStore" -> clearStoreToasts("recordings", TRUE, outcome)
      [] OTHER -> addItemToasts(outcome)

\* the request of the helper settles.  request.onsuccess resolves the helper's
\* promise and the transaction goes on to complete; request.onerror rejects it
\* and the transaction aborts: no oncomplete follows, the helper has no
\* onabort, and the connection is left as it is
RequestSettled(c, succeeded) ==
    /\ c \in 1..Len(storeCalls)
    /\ storeCalls[c].pc = "request"
    /\ LET call == storeCalls[c]
           outcome == IF succeeded THEN "ok" ELSE "requestError"
       IN /\ db' = [db EXCEPT !.recordings =
                        CASE call.op = "addItem" -> addItem(@, call.item, outcome).records
                          [] call.op = "deleteItem" -> deleteItem(@, call.item.id, outcome)
                          [] call.op = "clearStore" -> clearStore(@, outcome)
                          [] OTHER -> @]
          /\ toasts' = RequestToasts(call.op, outcome)
          /\ storeCalls' = IF succeeded
                              THEN [storeCalls EXCEPT ![c].pc = "resolved"]
                              ELSE RemoveAt(storeCalls, c)
    /\ UNCHANGED <<recorderVars, ttsVars, newsVars, objectUrls, urlCount, now, connections>>

\* transaction.oncomplete = () => db.close()
TransactionCompleted(c) ==
    /\ c \in 1..Len(storeCalls)
    /\ storeCalls[c].pc = "resolved"
    /\ connections' = connections - 1
    /\ storeCalls' = RemoveAt(storeCalls, c)
    /\ toasts' = <<>>
    /\ UNCHANGED <<recorderVars, ttsVars, newsVars, db, objectUrls, urlCount, now>>

(* --------------------------- api/newsApi.ts ---------------------------- *)

FetchOutcomes == {"ok", "httpError", "networkError"}

\* fetchNewsData as the earlier revision had it: no shared promise, every call
\* makes its request
NeverInProgress(pending) == FALSE

\* if (pendingRequest): a request is already in progress
InProgress(pending) == pending # NoRequest

\* fetchNewsData up to its return of the pending promise, or up to its await
\* of the promise it makes; promise is the request the call's promise settles
\* with, own whether the call made it
fetchNewsData ==
    /\ Len(newsCalls) < MaxNewsCalls
    /\ toasts' = <<>>
    /\ IF InProgress(pendingRequest)
          THEN /\ newsCalls' = Append(newsCalls,
                        [promise |-> pendingRequest, own |-> FALSE, pc |-> "await",
                         result |-> ""])
               /\ UNCHANGED <<pendingRequest, requestCount, network>>
          ELSE /\ requestCount < MaxRequests
               /\ requestCount' = requestCount + 1
               /\ network' = network \cup {requestCount + 1}
               /\ pendingRequest' = requestCount + 1
               /\ newsCalls' = Append(newsCalls,
                        [promise |-> requestCount + 1, own |-> TRUE, pc |-> "await",
                         result |-> ""])
    /\ UNCHANGED <<recorderVars, ttsVars, storeVars, db, objectUrls, urlCount, now>>

\* how the promise of a call settles: the call that made the request wraps a
\* failure in its catch, a call that returned the pending promise gets the
\* failure as the chain raised it
NewsResult(own, outcome) ==
    CASE outcome = "ok" -> "data"
      [] own /\ outcome = "httpError" -> "Failed to load news data. HTTP error! Status"
      [] own -> "Failed to load news data. network"
      [] outcome = "httpError" -> "HTTP error! Status"
      [] OTHER -> "network"

\* the request settles: the then and the finally of the chain, and in the same
\* run of the microtask queue the rest of the call that awaits the chain, with
\* its catch and its finally.  No task runs between them.
FetchSettled(request, outcome) ==
    /\ request \in network
    /\ network' = network \ {request}
    /\ pendingRequest' = NoRequest
    /\ toasts' = IF outcome = "ok" THEN <<>>
                 ELSE <<Error("Failed to load news data")>>
    /\ newsCalls' =
            [c \in 1..Len(newsCalls) |->
                IF newsCalls[c].promise = request /\ newsCalls[c].pc = "await"
                    THEN [newsCalls[c] EXCEPT
                            !.pc = "settled",
                            !.result = NewsResult(newsCalls[c].own, outcome)]
                    ELSE newsCalls[c]]
    /\ UNCHANGED <<recorderVars, ttsVars, storeVars, db, objectUrls, urlCount, now,
                   requestCount>>

\* the caller of fetchNewsData resumes with the data or the error
NewsDelivered(c) ==
    /\ c \in 1..Len(newsCalls)
    /\ newsCalls[c].pc = "settled"
    /\ newsCalls' = RemoveAt(newsCalls, c)
    /\ toasts' = <<>>
    /\ UNCHANGED <<recorderVars, ttsVars, storeVars, db, objectUrls, urlCount, now,
                   pendingRequest, requestCount, network>>

NewsNext ==
    \/ fetchNewsData
    \/ \E request \in network, outcome \in FetchOutcomes : FetchSettled(request, outcome)
    \/ \E c \in 1..Len(newsCalls) : NewsDelivered(c)

NewsInit == Init /\ db = [recordings |-> {}, ttsHistory |-> {}, ttsSettings |-> {}]

NewsSpec == NewsInit /\ [][NewsNext]_vars

\* the store helpers on their own, called by any caller
StoreNext ==
    \/ \E op \in StoreOps, item \in PersistedItems : CallHelper(op, item)
    \/ \E c \in 1..Len(storeCalls), opened \in BOOLEAN : initDB(c, opened)
    \/ \E c \in 1..Len(storeCalls), succeeded \in BOOLEAN : RequestSettled(c, succeeded)
    \/ \E c \in 1..Len(storeCalls) : TransactionCompleted(c)

StoreInit == RecorderInit

StoreSpec == StoreInit /\ [][StoreNext]_vars

\* the recorder's list and store when no store operation fails: load, upload,
\* delete and clear with every open and every request succeeding
SyncNext ==
    \/ InitializeApp("ok")
    \/ \E files \in Batches : UploadRecordings(files)
    \/ \E c \in 1..Len(pendingUploads), converted \in BOOLEAN, tick \in BOOLEAN :
            UploadBuffered(c, converted, tick)
    \/ \E c \in 1..Len(pendingUploads) : UploadSaved(c, "ok")
    \/ \E id \in KnownIds(recordings, db.recordings) \cup {""} : DeleteRecording(id)
    \/ \E call \in pendingDeletes : DeleteRecordingDone(call, "ok")
    \/ ClearAllRecordings
    \/ \E call \in pendingClears : ClearAllRecordingsDone(call, "ok")

SyncInit == RecorderInit

SyncSpec == SyncInit /\ [][SyncNext]_vars

\* overlapping syntheses: generateSpeech called again while calls are in
\* flight, on a first visit
OverlapNext ==
    \/ \E outcome \in StoreOutcomes : InitializeHistory(outcome)
    \/ \E outcome \in StoreOutcomes : InitializeSettings(outcome)
    \/ \E text \in SpeechTexts : generateSpeech(text)
    \/ \E k \in 1..Len(pendingSpeech), fetched \in BOOLEAN, tick \in BOOLEAN,
            tock \in BOOLEAN : SpeechFetched(k, fetched, tick, tock)
    \/ \E k \in 1..Len(pendingSpeech), outcome \in StoreOutcomes :
            SpeechSaved(k, outcome)

OverlapInit == Init /\ db = [recordings |-> {}, ttsHistory |-> {}, ttsSettings |-> {}]

OverlapSpec == OverlapInit /\ [][OverlapNext]_vars

\* loading what earlier visits left: the initialization of both managers from
\* stores of up to MaxPersisted records each, the save it triggers, teardown
LoadNext ==
    \/ \E outcome \in StoreOutcomes : InitializeApp(outcome)
    \/ \E outcome \in StoreOutcomes : InitializeHistory(outcome)
    \/ \E outcome \in StoreOutcomes : InitializeSettings(outcome)
    \/ \E k \in 1..Len(pendingSaves), outcome \in StoreOutcomes :
            SaveSettingsCleared(k, outcome)
    \/ \E k \in 1..Len(pendingSaves), outcome \in StoreOutcomes :
            SaveSettingsAdded(k, outcome)
    \/ Unmount
    \/ TTSUnmount

LoadInit == Init

LoadSpec == LoadInit /\ [][LoadNext]_vars

\* the page: both managers
Next ==
    \/ RecorderNext \/ UploadNext \/ SyncNext
    \/ SpeechNext \/ OverlapNext \/ SettingsNext \/ LoadNext \/ StoreNext
    \/ NewsNext

Spec == Init /\ [][Next]_vars

(* ------------------------------- claims -------------------------------- *)

LiveStreams == {s \in Streams : tracks[s] = "live"}

HasError(ts) == \E k \in 1..Len(ts) : ts[k].type = "error"

\* what cleanupRecording leaves behind: the referenced stream stopped, the
\* references cleared, the manager not recording
Released ==
    /\ streamRef' = NoStream
    /\ streamRef # NoStream => tracks'[streamRef] = "ended"
    /\ mediaRecorderRef' = NoRecorder
    /\ ~isRecording'

\* C1: a startRecording call made while a session is recording or while an
\* earlier call still waits for the microphone is rejected: it issues no
\* getUserMedia request, and no stream is acquired over a referenced one (which
\* would replace the first session's stream and empty its chunk buffer).
C1_SecondStartRejected ==
    [][/\ (isRecording \/ pendingStarts > 0) => pendingStarts' <= pendingStarts
       /\ streamRef # NoStream /\ tracks[streamRef] = "live"
            => streamRef' \in {streamRef, NoStream}]_vars

\* C2: at most one acquired stream has unstopped tracks, and it is the one the
\* manager references.
C2_OneOpenStream ==
    /\ Cardinality(LiveStreams) <= 1
    /\ \A s \in LiveStreams : streamRef = s

\* C3: every listed item with a non-empty audioUrl has a live handle.  Stated
\* for the states with no delete or clear in flight; the claim, made for every
\* state, fails wherever this does.
C3_ListedUrlsLive ==
    pendingDeletes = {} /\ pendingClears = {}
        => UrlsOf(recordings) \subseteq objectUrls

\* C4: a delete or clear operation, settled with success or failure, has
\* revoked as many live handles as it removes items from the list (handles
\* after = handles before - items removed).
C4_RevokedEqualsRemoved ==
    [][/\ \A call \in pendingDeletes \ pendingDeletes' :
            Cardinality(call.revoked) = Len(recordings) - Len(recordings')
       /\ \A call \in pendingClears \ pendingClears' :
            Cardinality(call.revoked) = Len(recordings) - Len(recordings')]_vars

\* C5: after teardown no listed item has a live handle and no stream is open.
C5_TeardownReleases ==
    ~mounted => /\ UrlsOf(recordings) \cap objectUrls = {}
                /\ LiveStreams = {}

\* C6: when the put of a finalized capture fails, the referenced stream is
\* stopped and the manager is back to not recording, the capture's handle is
\* revoked, an error is notified and the list is unchanged.
C6_PutFailureReleases ==
    [][\A r \in Streams :
         recPc[r] = "put" /\ recPc'[r] # "put" /\ newItem[r] \notin db'.recordings
            => /\ Released
               /\ recPc'[r] = "inactive"
               /\ newItem[r].audioUrl \notin objectUrls'
               /\ HasError(toasts')
               /\ recordings' = recordings]_vars

C6_Witness ==
    /\ toasts = <<Error("Failed to save recording")>>
    /\ tracks[1] = "ended"
    /\ urlCount > Cardinality(objectUrls)

\* C7: when the stop event of a stopped session finds no captured chunk, nothing
\* is written to the store, no item is listed, no handle is created, the
\* empty-capture error is notified and the session ends with the stream released.
C7_EmptyCaptureRejected ==
    [][\A r \in Streams :
         recPc[r] = "stopping" /\ onstop[r] /\ audioChunksRef = <<>>
                /\ recPc'[r] # "stopping"
            => /\ db' = db
               /\ recordings' = recordings
               /\ urlCount' = urlCount /\ objectUrls' = objectUrls
               /\ toasts' = <<Error("No audio data captured")>>
               /\ recPc'[r] = "inactive"
               /\ Released]_vars

C7_Witness ==
    /\ toasts = <<Error("No audio data captured")>>
    /\ \E r \in Streams : recPc[r] = "inactive" /\ onstop[r] /\ tracks[r] = "ended"

SettledSpeech(k) ==
    /\ k \in 1..Len(pendingSpeech)
    /\ pendingSpeech[k].pc = "put"
    /\ pendingSpeech' = RemoveAt(pendingSpeech, k)

\* C8: when the put of generateSpeech fails after the network call succeeded,
\* the current-audio pointer is the live handle of the generated audio and the
\* history list is what it was: no step of a generateSpeech call other than a
\* put that succeeded changes it.
C8_PutFailureKeepsAudio ==
    [][/\ \A k \in 1..Len(pendingSpeech) :
            SettledSpeech(k) /\ pendingSpeech[k].newItem \notin db'.ttsHistory
                => /\ audioUrl' = pendingSpeech[k].newItem.audioUrl
                   /\ audioUrl' \in objectUrls'
                   /\ history' = history
       /\ (/\ pendingSpeech' # pendingSpeech
           /\ \A k \in 1..Len(pendingSpeech) :
                SettledSpeech(k) => pendingSpeech[k].newItem \notin db'.ttsHistory)
            => history' = history]_vars

C8_Witness ==
    /\ pendingSpeech = <<>>
    /\ audioUrl \in objectUrls
    /\ audioUrl \notin UrlsOf(history)
    /\ \A r \in db.ttsHistory : r.audioUrl # audioUrl
    /\ ~isLoading

\* C9: a settings save that ran with no other save in flight and succeeded
\* leaves exactly one record in ttsSettings, and it holds the last update: the
\* settings now in memory.
C9_SettingsSingleton ==
    [][\A k \in 1..Len(pendingSaves) :
         /\ pendingSaves[k].pc = "add" /\ pendingSaves[k].alone
         /\ pendingSaves' = RemoveAt(pendingSaves, k)
         /\ db'.ttsSettings # {}
         => db'.ttsSettings = {[id |-> 1, language |-> state'.language,
                                text |-> state'.text,
                                isOptimizeWithAI |-> state'.isOptimizeWithAI]}]_vars

C9_Witness ==
    /\ pendingSaves = <<>>
    /\ state = [language |-> "vi", text |-> <<>>, isOptimizeWithAI |-> TRUE]
    /\ db.ttsSettings = {[id |-> 1, language |-> "vi", text |-> <<>>,
                          isOptimizeWithAI |-> TRUE]}

\* C10: no store holds two records with one id, and a put of an item whose id
\* is already in the store with other content succeeds and leaves exactly one
\* record with that id: the item put.
C10_PutReplaces ==
    /\ \A name \in DOMAIN db : \A a, b \in db[name] : a.id = b.id => a = b
    /\ \A r \in Streams :
         recPc[r] = "put"
            /\ (\E old \in db.recordings : old.id = newItem[r].id /\ old # newItem[r])
         => LET request == storePut(db.recordings, newItem[r])
            IN /\ request.ok
               /\ {x \in request.records : x.id = newItem[r].id} = {newItem[r]}
               /\ addItem(db.recordings, newItem[r], "ok").outcome = "ok"

\* two captures got one id; both are listed, the store holds the second only
C10_Witness ==
    /\ Len(recordings) = 2
    /\ recordings[1].id = recordings[2].id
    /\ recordings[1] # recordings[2]
    /\ db.recordings = {recordings[1]}

\* the elements of a list
Items(list) == {list[k] : k \in 1..Len(list)}

\* a record or an item without its handle, which every page load makes anew
Stored(r) == [r EXCEPT !.audioUrl = NoUrl]

\* C11: loadItems called with an index name the store does not have, the open
\* and the request succeeding, resolves with every record of the store, each
\* once, instead of rejecting.  Checked for every store content reached and
\* for the two index names the managers ask for.
C11_IndexFallback ==
    \A name \in DOMAIN db : \A indexName \in {"timestamp", "id"} :
        indexName \notin IndexNames
            => LET loaded == loadItems(db[name], IndexNames, indexName, "ok")
               IN /\ loaded.outcome = "ok"
                  /\ Items(loaded.items) = db[name]
                  /\ Len(loaded.items) = Cardinality(db[name])

\* the speech manager has loaded a store of two records through the fallback
C11_Witness ==
    /\ ttsInitPc = "settings"
    /\ Cardinality(db.ttsHistory) = 2
    /\ {Stored(i) : i \in Items(history)} = db.ttsHistory

StrictlyDescending(list) ==
    \A j, k \in 1..Len(list) : j < k => list[j].timestamp > list[k].timestamp

\* the list holds the records, each once, with handles of its own
ExactlyTheRecords(list, records) ==
    /\ Len(list) = Cardinality(records)
    /\ {Stored(i) : i \in Items(list)} = {Stored(r) : r \in records}

\* C12: when the records of a store have distinct timestamps, the list a
\* manager installs after a load that succeeded is in strictly descending
\* timestamp order and holds exactly the records of the store.
C12_LoadedDescending ==
    [][/\ (/\ initPc = "loading" /\ initPc' = "done" /\ ~HasError(toasts')
           /\ \A a, b \in db.recordings : a.timestamp = b.timestamp => a = b)
            => /\ StrictlyDescending(recordings')
               /\ ExactlyTheRecords(recordings', db.recordings)
       /\ (/\ ttsInitPc = "history" /\ ttsInitPc' = "settings"
           /\ \A a, b \in db.ttsHistory : a.timestamp = b.timestamp => a = b)
            => /\ StrictlyDescending(history')
               /\ ExactlyTheRecords(history', db.ttsHistory)]_vars

\* the recorder has installed two loaded items, the later one first
C12_Witness ==
    /\ initPc = "done"
    /\ Len(recordings) = 2
    /\ recordings[1].timestamp > recordings[2].timestamp
    /\ Cardinality(db.recordings) = 2

\* C13: deleteRecording(id) revokes the handle of the matching item when it
\* asks the store to delete, the list and the store being untouched by that
\* step; the item leaves the list in the step where the store confirms, and
\* stays when the store refuses.
C13_DeleteOrder ==
    [][/\ \A call \in pendingDeletes' \ pendingDeletes :
            /\ Find(recordings, call.id).audioUrl \notin objectUrls'
            /\ recordings' = recordings
            /\ db' = db
       /\ \A call \in pendingDeletes \ pendingDeletes' :
            /\ HasError(toasts') => recordings' = recordings
            /\ recordings' # recordings
                    => \A r \in db'.recordings : r.id # call.id
            /\ ~HasError(toasts')
                    => \A i \in Items(recordings') : i.id # call.id]_vars

\* a delete the store refused: the item is still listed, its handle revoked
C13_Witness ==
    /\ toasts = <<Error("Failed to delete item from recordings"),
                  Error("Failed to delete recording")>>
    /\ Len(recordings) = 1
    /\ recordings[1].audioUrl \notin objectUrls
    /\ recordings[1].audioUrl # NoUrl

\* the names of the files of a batch that pass the type check, in batch order
AcceptedNames(files) ==
    LET accepted == {k \in 1..Len(files) : files[k].type = "audio/mpeg"}
        Nth(j) == CHOOSE k \in accepted :
                    Cardinality({i \in accepted : i < k}) = j - 1
    IN [j \in 1..Cardinality(accepted) |-> FileName(files, Nth(j))]

\* C14: when an uploadRecordings call ends, every file of its batch that passed
\* the type check has its item in the list, the new items in upload order in
\* front of the previous list, and each new item has its record in the store.
C14_UploadAccepted ==
    [][\A c \in 1..Len(pendingUploads) :
         pendingUploads' = RemoveAt(pendingUploads, c)
            => LET names == AcceptedNames(pendingUploads[c].files)
                   n == Len(names)
               IN /\ Len(recordings') = n + Len(recordings)
                  /\ SubSeq(recordings', n + 1, Len(recordings')) = recordings
                  /\ \A j \in 1..n : /\ recordings'[j].audioBinary = <<names[j]>>
                                      /\ recordings'[j] \in db'.recordings]_vars

\* a text with no character other than spaces
Blank(text) == \A k \in 1..Len(text) : text[k] = " "

\* C15: generateSpeech called with an empty or whitespace-only text reports the
\* empty-input error and returns: no network request is issued, and isLoading,
\* the current-audio pointer, the history list and the store are unchanged.
C15_BlankTextRejected ==
    [][\A text \in SpeechTexts :
         Blank(text) /\ generateSpeech(text)
            => /\ toasts' = <<Error("Text input cannot be empty!")>>
               /\ pendingSpeech' = pendingSpeech
               /\ isLoading' = isLoading
               /\ audioUrl' = audioUrl
               /\ history' = history
               /\ db' = db]_vars

\* a blank text was rejected while an audio was current and listed
C15_Witness ==
    /\ toasts = <<Error("Text input cannot be empty!")>>
    /\ audioUrl # NoUrl
    /\ history # <<>>
    /\ pendingSpeech = <<>>

\* C16: the item of a synthesis is written to the store before the history
\* and the current-audio pointer are updated: while its put is pending the
\* item is not listed and its handle is not the current audio, and every
\* listed item has a record under its id in the store.
C16_StoredBeforeListed ==
    /\ \A k \in 1..Len(pendingSpeech) :
            pendingSpeech[k].pc = "put"
                => /\ pendingSpeech[k].newItem \notin Items(history)
                   /\ audioUrl # pendingSpeech[k].newItem.audioUrl
    /\ \A i \in Items(history) : \E r \in db.ttsHistory : r.id = i.id

\* a synthesis has ended: its item is stored, listed first and current
C16_Witness ==
    /\ pendingSpeech = <<>>
    /\ history # <<>>
    /\ history[1].audioUrl = audioUrl
    /\ audioUrl \in objectUrls
    /\ history[1] \in db.ttsHistory

\* C17: a failure inside an operation of the speech manager ends the call with
\* an error notification: the network call of generateSpeech, its put, the
\* delete of deleteHistoryItem and the clear of clearAllHistory.
C17_FailuresNotified ==
    [][/\ \A k \in 1..Len(pendingSpeech) :
            /\ pendingSpeech[k].pc = "fetch"
            /\ pendingSpeech' = RemoveAt(pendingSpeech, k)
            => HasError(toasts')
       /\ \A k \in 1..Len(pendingSpeech) :
            SettledSpeech(k) /\ pendingSpeech[k].newItem \notin db'.ttsHistory
            => HasError(toasts')
       /\ \A call \in pendingHistoryDeletes \ pendingHistoryDeletes' :
            (\E r \in db'.ttsHistory : r.id = call.id) => HasError(toasts')
       /\ \A call \in pendingHistoryClears \ pendingHistoryClears' :
            db'.ttsHistory # {} => HasError(toasts')]_vars

ErrorCount(ts) == Cardinality({k \in 1..Len(ts) : ts[k].type = "error"})

\* C18: a failure of an operation of the recorder manager raises exactly one
\* error notification: the device refusing, the load, the put, the delete and
\* the clear failing.
C18_OneNotificationPerFailure ==
    [][/\ pendingStarts' < pendingStarts /\ ~isRecording'
            => ErrorCount(toasts') = 1
       /\ (/\ initPc = "loading" /\ initPc' = "done"
           /\ db.recordings # {} /\ recordings' = <<>>)
            => ErrorCount(toasts') = 1
       /\ \A r \in Streams :
            recPc[r] = "put" /\ recPc'[r] # "put" /\ newItem[r] \notin db'.recordings
            => ErrorCount(toasts') = 1
       /\ \A call \in pendingDeletes \ pendingDeletes' :
            (\E r \in db'.recordings : r.id = call.id) => ErrorCount(toasts') = 1
       /\ \A call \in pendingClears \ pendingClears' :
            db'.recordings # {} => ErrorCount(toasts') = 1]_vars

\* C19: when a load of the initialization fails, the speech manager ends its
\* initialization all the same: the failure is notified, nothing is loaded
\* (the list is empty unless this visit has already produced an audio, the
\* settings are the ones in memory), and isInitializing is false from then on,
\* so that later operations and the auto-save run.
C19_InitFailureDegrades ==
    [][/\ ttsInitPc = "done" => ~isInitializing
       /\ ttsInitPc # "done" /\ ttsInitPc' = "done" => ~isInitializing'
       /\ ttsInitPc = "history" /\ ttsInitPc' = "done"
            => /\ HasError(toasts')
               /\ history' = history
               /\ urlCount = 0 => history' = <<>>
               /\ state' = state
               /\ pendingSaves' # <<>>]_vars

\* the history load failed (the record of the earlier visit is not listed) and
\* a synthesis made afterwards is stored, listed and current
C19_Witness ==
    /\ ttsInitPc = "done"
    /\ ~isInitializing
    /\ PersistedSpeech \in db.ttsHistory
    /\ Len(history) = 1
    /\ history[1] \in db.ttsHistory
    /\ history[1].audioUrl = audioUrl
    /\ history[1].timestamp >= MaxPersisted

\* the recorder manager at rest
Idle ==
    /\ ~isRecording
    /\ mediaRecorderRef = NoRecorder
    /\ streamRef = NoStream

\* stopRecording has stopped a recorder whose onstop handler has not ended yet
StopCalled == \E r \in Streams : onstop[r] /\ recPc[r] \in {"stopping", "buffer", "put"}

\* the last step reported a device or recorder error
DeviceFailed ==
    \E k \in 1..Len(toasts) :
        toasts[k] \in {Error("Recording error occurred"),
                       Error("Microphone access denied. Please check permissions."),
                       Error("No microphone detected on your device."),
                       Error("Failed to start recording. Please check microphone access.")}

C21_OverlappingBothStored ==
    [][\A k \in 1..Len(pendingSpeech) :
         /\ SettledSpeech(k)
         /\ pendingSpeech[k].overlapped
         /\ pendingSpeech[k].newItem \in db'.ttsHistory
         => /\ pendingSpeech[k].newItem \in Items(history')
            /\ \A i \in Items(history') : i \in db'.ttsHistory]_vars

Ids(records) == {r.id : r \in records}

\* C22: whenever no operation of the recorder manager is in flight, the ids of
\* the listed items are the ids of the stored records, every store operation
\* having succeeded.
C22_ListMirrorsStore ==
    (/\ initPc = "done"
     /\ pendingUploads = <<>> /\ pendingDeletes = {} /\ pendingClears = {}
     /\ pendingStarts = 0 /\ \A r \in Streams : recPc[r] \in {"none", "inactive"})
        => Ids(Items(recordings)) = Ids(db.recordings)

\* C23: an item made by uploadRecordings gets an id that no stored record, no
\* listed item and no earlier item of the same call has, so that its put adds
\* a record and replaces none.
C23_FreshIds ==
    \A c \in 1..Len(pendingUploads) :
        pendingUploads[c].pc = "put"
            => pendingUploads[c].newItem.id \notin
                    Ids(db.recordings) \cup Ids(Items(recordings))
                        \cup Ids(Items(pendingUploads[c].newRecordings))

C25_SettingsAlwaysOne ==
    [][db.ttsSettings # {} => Cardinality(db'.ttsSettings) = 1]_vars

\* C26: every store helper closes the connection it opened once it has
\* finished, whether its request succeeded or failed: with no helper call in
\* flight no connection is open.
C26_ConnectionsClosed == storeCalls = <<>> => connections = 0

\* C27: with no setting changed by the user, no save is issued while the
\* manager initializes, and the save that follows initialization writes the
\* record the store held at mount: what it is about to replace is what it
\* carries, also when a load of the initialization failed.
C27_MountKeepsSettings ==
    /\ isInitializing => pendingSaves = <<>>
    /\ \A k \in 1..Len(pendingSaves) :
            pendingSaves[k].pc = "clear" /\ db.ttsSettings # {}
                => db.ttsSettings =
                        {[id |-> 1, language |-> pendingSaves[k].settings.language,
                          text |-> pendingSaves[k].settings.text,
                          isOptimizeWithAI |-> pendingSaves[k].settings.isOptimizeWithAI]}

\* C28: the blob onstop builds for a recorder holds chunks of that recorder
\* only: the buffer never hands a session a chunk another recorder delivered.
C28_OwnChunksOnly ==
    \A r \in Streams : \A k \in 1..Len(audioBlob[r]) : audioBlob[r][k] = r

\* C29: isLoading is true exactly while a generateSpeech call is in flight,
\* also when two calls overlap and when a call fails.
C29_LoadingWhileInFlight == isLoading <=> pendingSpeech # <<>>

\* C30: a fetchNewsData call made while a news request is in flight gets the
\* promise of that request and sends nothing, so that at most one news request
\* is outstanding; when the request settles, with data or with a failure,
\* pendingRequest is null, and a call made with pendingRequest null sends a
\* new request.
C30_OneNewsRequest ==
    [][/\ Cardinality(network') <= 1
       /\ Len(newsCalls') > Len(newsCalls) /\ network # {}
            => /\ network' = network
               /\ newsCalls'[Len(newsCalls')].promise \in network
       /\ network' # network /\ network' \subseteq network
            => pendingRequest' = NoRequest
       /\ Len(newsCalls') > Len(newsCalls) /\ pendingRequest = NoRequest
            => /\ Cardinality(network') = Cardinality(network) + 1
               /\ newsCalls'[Len(newsCalls')].promise \in network' \ network]_vars

\* two calls share the second request, made after the first had settled
C30_Witness ==
    /\ requestCount = 2
    /\ network = {2}
    /\ Cardinality({c \in 1..Len(newsCalls) :
                        newsCalls[c].promise = 2 /\ newsCalls[c].pc = "await"}) = 2

====
